---- MODULE Spec2Model ----
(***************************************************************************)
(* Cinematic 3D Animator: the settings store (zustand), the Animator       *)
(* component's state, refs and handlers (components/Animator.tsx) and the  *)
(* Scene's phase accumulator and per-frame callback (ParallaxStudio).      *)
(*                                                                         *)
(* Numbers with decimals are kept in thousandths: depth 0.35 is 350, a     *)
(* duration of 8 seconds is 8000, which is also its length in ms.          *)
(*                                                                         *)
(* React state (useState, the zustand store) changes when its setter is    *)
(* called; what closures and child props see changes at the next render.   *)
(* The variable "rendered" holds what the handlers' closures captured at   *)
(* the last render of Animator, "scene" what the mounted Scene received.   *)
(***************************************************************************)
EXTENDS Integers, Sequences, FiniteSets, TLC

VARIABLES
    settings,      \* useAnimatorStore: the store's settings record
    storeLog,      \* history: each store operation so far and the snapshot it left
    prepared,      \* useState prepared: the active image's id, 0 = null
    isLoading,     \* useState isLoading
    isRecording,   \* useState isRecording
    downloadUrl,   \* useState downloadUrl: index into objectUrls, 0 = null
    playSignal,    \* useState playSignal
    rendered,      \* what handleRecord's closure captured at the last render
    scene,         \* the mounted ParallaxStudio/Scene: props, key, canvas, timeRef
    frameOut,      \* what the last useFrame callback wrote to camera, mesh, gl
    canvasRef,     \* canvasRef.current: a canvas id, 0 = null
    canvasOwner,   \* canvases created so far: canvasOwner[c] = image id shown on c
    recorderRef,   \* recorderRef.current: index into recorders, 0 = null
    chunksRef,     \* chunksRef.current: the chunks, each named by its recorder
    recorders,     \* the MediaRecorder objects created so far, with their timers
    objectUrls,    \* blobs given a URL by URL.createObjectURL
    supported,     \* the mime types MediaRecorder.isTypeSupported accepts
    bootstrap,     \* position of the bootstrap effect's async function
    uploads        \* position of each handleFileChange call's async work

vars == <<settings, storeLog, prepared, isLoading, isRecording, downloadUrl,
          playSignal, rendered, scene, frameOut, canvasRef, canvasOwner,
          recorderRef, chunksRef, recorders, objectUrls, supported, bootstrap,
          uploads>>

storeVars   == <<settings, storeLog>>
imageVars   == <<prepared, isLoading, bootstrap, uploads>>
sceneVars   == <<rendered, scene, frameOut, canvasRef, canvasOwner>>
captureVars == <<isRecording, downloadUrl, playSignal, recorderRef, chunksRef,
                 recorders, objectUrls>>

----------------------------------------------------------------------------
(* Bounds of the model *)

MaxOps == 2          \* setValue/reset calls in one behaviour
MaxFrames == 2       \* frames that advance the phase accumulator of one mount
MaxRecorders == 2    \* MediaRecorder objects created in one behaviour
MaxUploads == 1      \* handleFileChange calls with a file in one behaviour

----------------------------------------------------------------------------
(* The settings store *)

Keys == {"duration", "depth", "sway", "zoom", "roll", "wave", "exposure", "vignette"}

\* the store's initial settings
InitialSettings ==
    [duration |-> 8000, depth |-> 350, sway |-> 600, zoom |-> 120,
     roll |-> 80, wave |-> 150, exposure |-> 1050, vignette |-> 250]

\* variant: reset() leaves the vignette as it is
PartialReset == [InitialSettings EXCEPT !.vignette = settings.vignette]

\* the table reset() writes
ResetSettings ==
    [duration |-> 8000, depth |-> 350, sway |-> 600, zoom |-> 120,
     roll |-> 80, wave |-> 150, exposure |-> 1050, vignette |-> 250]

\* the other value each key is given here: an end of its slider's range
SliderEnd ==
    [duration |-> 4000, depth |-> 800, sway |-> 0, zoom |-> 400,
     roll |-> 200, wave |-> 400, exposure |-> 600, vignette |-> 650]

\* values setValue is called with
Values(key) == {InitialSettings[key], SliderEnd[key]}

\* variant: the other fields are rebuilt from the defaults, not from the state
OnlyKeySet(s, key, value) ==
    [k \in Keys |-> IF k = key THEN value ELSE InitialSettings[k]]

\* { ...state.settings, [key]: value }
SettingsAfterSet(s, key, value) == [k \in Keys |-> IF k = key THEN value ELSE s[k]]

Logged(op, key, value, s) ==
    Append(storeLog, [op |-> op, key |-> key, value |-> value, settings |-> s])

SetValue(key, value) ==
    /\ Len(storeLog) <= MaxOps
    /\ settings' = SettingsAfterSet(settings, key, value)
    /\ storeLog' = Logged("set", key, value, settings')
    /\ UNCHANGED <<imageVars, sceneVars, captureVars, supported>>

Reset ==
    /\ Len(storeLog) <= MaxOps
    /\ settings' = ResetSettings
    /\ storeLog' = Logged("reset", "", 0, settings')
    /\ UNCHANGED <<imageVars, sceneVars, captureVars, supported>>

----------------------------------------------------------------------------
(* Rendering: Animator's render and the Scene's props and effects *)

NoScene ==
    [mounted |-> FALSE, key |-> 0, canvas |-> 0, settings |-> InitialSettings,
     playSignal |-> 0, timeRef |-> 0]

NoFrame == [valid |-> FALSE]

\* variant: the effect is missing, the accumulator runs on
KeepTime(oldSignal, newSignal, t) == t

\* useEffect(() => { timeRef.current = 0 }, [playSignal])
TimeAfterSignal(oldSignal, newSignal, t) == IF newSignal # oldSignal THEN 0 ELSE t

\* prepared && !isLoading ? <ParallaxStudio key={prepared.id} .../> : <Loader2/>
ShowStudio == prepared # 0 /\ ~isLoading

\* the Scene stays mounted when the studio is shown with the same key
SameStudio == ShowStudio /\ scene.mounted /\ scene.key = prepared

\* variant: the Scene keeps the duration of its previous props
StaleDurationProp(s) ==
    IF scene.mounted THEN [s EXCEPT !.duration = scene.settings.duration] ELSE s

\* settings={settings}: the Scene's props are the store's snapshot at this render
SceneSettingsProp(s) == s

SceneAfterRender ==
    IF ~ShowStudio THEN NoScene
    ELSE IF SameStudio
    THEN [scene EXCEPT !.settings = SceneSettingsProp(settings),
                       !.playSignal = playSignal,
                       !.timeRef = TimeAfterSignal(scene.playSignal, playSignal,
                                                   scene.timeRef)]
    ELSE [mounted |-> TRUE, key |-> prepared, canvas |-> Len(canvasOwner) + 1,
          settings |-> SceneSettingsProp(settings), playSignal |-> playSignal,
          timeRef |-> 0]

\* useCallback(..., [isRecording, settings.duration]) and useAnimatorStore()
RenderedNow == [isRecording |-> isRecording, settings |-> settings]

Render ==
    /\ (RenderedNow # rendered \/ SceneAfterRender # scene)
    /\ rendered' = RenderedNow
    /\ scene' = SceneAfterRender
    /\ IF ShowStudio /\ ~SameStudio
       THEN \* a new Canvas: onCreated calls registerCanvas(gl.domElement)
            /\ canvasOwner' = Append(canvasOwner, prepared)
            /\ canvasRef' = Len(canvasOwner) + 1
       ELSE UNCHANGED <<canvasOwner, canvasRef>>
    /\ frameOut' = IF SameStudio THEN frameOut ELSE NoFrame
    /\ UNCHANGED <<storeVars, imageVars, captureVars, supported>>

----------------------------------------------------------------------------
(* The per-frame callback of Scene *)

FrameDeltas == {4000}

MinDuration == 100   \* Math.max(0.1, settings.duration)

Max(a, b) == IF a >= b THEN a ELSE b

\* sin or cos of (mult/10) * cycle + offset, cycle = 2*pi * phase/duration, kept
\* as the expression itself
Wave(fn, mult, phase, duration, offset) ==
    [fn |-> fn, mult |-> mult, phase |-> phase, duration |-> duration,
     offset |-> offset]

\* a product of a wave and amplitudes (in thousandths); 0 when an amplitude is 0
Times(w, amp, scale) ==
    IF amp = 0 THEN [zero |-> TRUE, wave |-> Wave("sin", 0, 0, 1, 0), amp |-> 0]
    ELSE [zero |-> FALSE, wave |-> w, amp |-> amp * scale]

\* variant: the duration is used as set
NoClamp(d) == d

\* Math.max(0.1, settings.duration)
ClampDuration(d) == Max(MinDuration, d)

NaN == "NaN"

\* a % b of JavaScript for a >= 0: the sign of a, NaN when b is 0
Remainder(a, b) == IF b = 0 THEN NaN ELSE IF b > 0 THEN a % b ELSE a % (0 - b)

\* variant: the lift is driven by the zoom amplitude
LiftByZoom(t, s) ==
    LET duration == ClampDuration(s.duration)
        phase == Remainder(t, duration)
        sway == Times(Wave("sin", 10, phase, duration, 0), s.sway, 1000)
        lift == Times(Wave("cos", 8, phase, duration, 0), s.zoom, 600)
        zoom == Times(Wave("sin", 5, phase, duration, 0), s.zoom, 1000)
        roll == Times(Wave("sin", 5, phase, duration, 0), s.roll, 1000)
        wave == Times(Wave("sin", 14, phase, duration, 0), s.wave, 1000)
    IN  [valid |-> TRUE,
         elapsed |-> t,
         duration |-> duration,
         phase |-> phase,
         cameraX |-> [sway EXCEPT !.amp = @ * 800],
         cameraY |-> [lift EXCEPT !.amp = @ * 400],
         cameraZ |-> [base |-> 3100, plus |-> [zoom EXCEPT !.amp = @ * 3200]],
         rotationZ |-> roll,
         positionZ |-> [wave EXCEPT !.amp = @ * 450],
         exposure |-> s.exposure,
         displacementScale |-> s.depth * 750,
         lights |-> [i \in 0..2 |->
                       [x |-> Wave("sin", 35, phase, duration, 2 * i),
                        y |-> Wave("cos", 22, phase, duration, 2 * i),
                        z |-> Wave("sin", 18, phase, duration, 2 * i)]],
         settings |-> s]

FrameTransforms(t, s) ==
    LET duration == ClampDuration(s.duration)
        phase == Remainder(t, duration)
        sway == Times(Wave("sin", 10, phase, duration, 0), s.sway, 1000)
        lift == Times(Wave("cos", 8, phase, duration, 0), s.sway, 600)
        zoom == Times(Wave("sin", 5, phase, duration, 0), s.zoom, 1000)
        roll == Times(Wave("sin", 5, phase, duration, 0), s.roll, 1000)
        wave == Times(Wave("sin", 14, phase, duration, 0), s.wave, 1000)
    IN  [valid |-> TRUE,
         elapsed |-> t,
         duration |-> duration,
         phase |-> phase,
         cameraX |-> [sway EXCEPT !.amp = @ * 800],
         cameraY |-> [lift EXCEPT !.amp = @ * 400],
         cameraZ |-> [base |-> 3100, plus |-> [zoom EXCEPT !.amp = @ * 3200]],
         rotationZ |-> roll,
         positionZ |-> [wave EXCEPT !.amp = @ * 450],
         exposure |-> s.exposure,
         displacementScale |-> s.depth * 750,
         lights |-> [i \in 0..2 |->
                       [x |-> Wave("sin", 35, phase, duration, 2 * i),
                        y |-> Wave("cos", 22, phase, duration, 2 * i),
                        z |-> Wave("sin", 18, phase, duration, 2 * i)]],
         settings |-> s]

Frame(delta) ==
    /\ scene.mounted
    /\ scene.timeRef + delta <= MaxFrames * delta
    /\ scene' = [scene EXCEPT !.timeRef = @ + delta]
    /\ frameOut' = FrameTransforms(scene.timeRef + delta, scene.settings)
    /\ UNCHANGED <<rendered, canvasRef, canvasOwner>>
    /\ UNCHANGED <<storeVars, imageVars, captureVars, supported>>

----------------------------------------------------------------------------
(* Image preparation: the bootstrap effect *)

\* crypto.randomUUID(): the id of the image prepared by job j (0 = bootstrap,
\* u = the u-th upload)
ImageId(j) == j + 1

\* await fetchImageAsDataUrl(defaultImage) returned
BootstrapFetched ==
    /\ bootstrap = "fetching"
    /\ bootstrap' = "preparing"
    /\ UNCHANGED <<prepared, isLoading, uploads>>
    /\ UNCHANGED <<storeVars, sceneVars, captureVars, supported>>

\* await prepareImage(...) returned: setPrepared(mapped); setIsLoading(false)
BootstrapPrepared ==
    /\ bootstrap = "preparing"
    /\ bootstrap' = "done"
    /\ prepared' = ImageId(0)
    /\ isLoading' = FALSE
    /\ UNCHANGED uploads
    /\ UNCHANGED <<storeVars, sceneVars, captureVars, supported>>

\* either await threw: .catch logs and calls setIsLoading(false)
BootstrapFailed ==
    /\ bootstrap \in {"fetching", "preparing"}
    /\ bootstrap' = "failed"
    /\ isLoading' = FALSE
    /\ UNCHANGED <<prepared, uploads>>
    /\ UNCHANGED <<storeVars, sceneVars, captureVars, supported>>

----------------------------------------------------------------------------
(* Image preparation: handleFileChange *)

\* handleFileChange(event): no file selected returns at once
HandleFileChange(hasFile) ==
    IF ~hasFile
    THEN UNCHANGED vars
    ELSE /\ Len(uploads) < MaxUploads
         /\ isLoading' = TRUE
         /\ downloadUrl' = 0
         /\ uploads' = Append(uploads, "reading")   \* reader.readAsDataURL(file)
         /\ UNCHANGED <<prepared, bootstrap>>
         /\ UNCHANGED <<isRecording, playSignal, recorderRef, chunksRef, recorders,
                        objectUrls>>
         /\ UNCHANGED <<storeVars, sceneVars, supported>>

\* reader.onload: a result that is no string clears the loading flag and returns,
\* otherwise prepareImage is awaited
ReaderLoaded(u, isString) ==
    /\ u \in 1..Len(uploads)
    /\ uploads[u] = "reading"
    /\ IF isString
       THEN /\ uploads' = [uploads EXCEPT ![u] = "preparing"]
            /\ UNCHANGED isLoading
       ELSE /\ uploads' = [uploads EXCEPT ![u] = "failed"]
            /\ isLoading' = FALSE
    /\ UNCHANGED <<prepared, bootstrap>>
    /\ UNCHANGED <<storeVars, sceneVars, captureVars, supported>>

\* the read fails: the FileReader fires error, for which no handler is set
ReaderError(u) ==
    /\ u \in 1..Len(uploads)
    /\ uploads[u] = "reading"
    /\ uploads' = [uploads EXCEPT ![u] = "readerror"]
    /\ UNCHANGED <<prepared, isLoading, bootstrap>>
    /\ UNCHANGED <<storeVars, sceneVars, captureVars, supported>>

\* a capture that is recording when the active image is replaced by an upload
MarkSuperseded(recs) ==
    [r \in 1..Len(recs) |->
        IF recs[r].state = "recording" THEN [recs[r] EXCEPT !.superseded = TRUE]
        ELSE recs[r]]

\* await prepareImage(...) returned: setPrepared(mapped), finally setIsLoading(false)
UploadPrepared(u) ==
    /\ u \in 1..Len(uploads)
    /\ uploads[u] = "preparing"
    /\ uploads' = [uploads EXCEPT ![u] = "done"]
    /\ prepared' = ImageId(u)
    /\ isLoading' = FALSE
    /\ recorders' = MarkSuperseded(recorders)
    /\ UNCHANGED bootstrap
    /\ UNCHANGED <<isRecording, downloadUrl, playSignal, recorderRef, chunksRef,
                   objectUrls>>
    /\ UNCHANGED <<storeVars, sceneVars, supported>>

\* await prepareImage(...) threw: catch logs, finally setIsLoading(false)
UploadFailed(u) ==
    /\ u \in 1..Len(uploads)
    /\ uploads[u] = "preparing"
    /\ uploads' = [uploads EXCEPT ![u] = "failed"]
    /\ isLoading' = FALSE
    /\ UNCHANGED <<prepared, bootstrap>>
    /\ UNCHANGED <<storeVars, sceneVars, captureVars, supported>>

----------------------------------------------------------------------------
(* The capture: handleRecord, stopRecording, the recorder's events, the timer *)

Vp9 == "video/webm;codecs=vp9"
Vp8 == "video/webm;codecs=vp8"
Webm == "video/webm"

\* what MediaRecorder.isTypeSupported can answer on a platform
Platforms == {{}, {Webm}, {Vp8, Webm}, {Vp9, Vp8, Webm}}

\* variant: vp8 is asked for before vp9
Vp8First(sup) == IF Vp8 \in sup THEN Vp8 ELSE IF Vp9 \in sup THEN Vp9 ELSE Webm

\* the mimeType handleRecord picks
MimeType(sup) == IF Vp9 \in sup THEN Vp9 ELSE IF Vp8 \in sup THEN Vp8 ELSE Webm

\* variant: the timeout is armed with the default duration
DefaultDelay(duration) == InitialSettings.duration

\* settings.duration * 1000, in ms (the duration is kept in thousandths)
TimerDelay(duration) == (duration * 1000) \div 1000

\* if (!canvasRef.current || isRecording) return
RecordReturnsEarly(ref, recording) == ref = 0 \/ recording

NewRecorder(mime, canvas, duration) ==
    [state |-> "recording",        \* recorder.start()
     mime |-> mime,
     canvas |-> canvas,            \* canvas.captureStream(60)
     timer |-> Max(0, TimerDelay(duration)),  \* ms until the timeout fires, -1 once fired
     stopQueued |-> FALSE,         \* the task stop() queues has not run yet
     elapsed |-> 0,                \* ms of timer time it has been recording, 0 when inactive
     duration |-> duration,        \* settings.duration as handleRecord read it
     superseded |-> FALSE]

HandleRecord ==
    IF RecordReturnsEarly(canvasRef, rendered.isRecording)
    THEN UNCHANGED vars
    ELSE IF MimeType(supported) \notin supported
    THEN UNCHANGED vars     \* new MediaRecorder throws NotSupportedError
    ELSE /\ Len(recorders) < MaxRecorders
         /\ recorders' = Append(recorders,
                NewRecorder(MimeType(supported), canvasRef, rendered.settings.duration))
         /\ recorderRef' = Len(recorders) + 1
         /\ chunksRef' = <<>>
         /\ downloadUrl' = 0
         /\ isRecording' = TRUE
         /\ playSignal' = playSignal + 1
         /\ UNCHANGED objectUrls
         /\ UNCHANGED <<storeVars, imageVars, sceneVars, supported>>

\* MediaRecorder.stop(): nothing when inactive; otherwise the recorder becomes
\* inactive and a task is queued that fires dataavailable and then stop
MediaRecorderStop(recs, r) ==
    IF recs[r].state = "inactive" THEN recs
    ELSE [recs EXCEPT ![r].state = "inactive", ![r].stopQueued = TRUE,
                      ![r].elapsed = 0]

\* recorderRef.current && recorderRef.current.state === "recording"
StopGuard(ref, recs) == ref # 0 /\ recs[ref].state = "recording"

\* variant: stopRecording clears the flag itself
ClearedByStop(recording) == FALSE

\* stopRecording never writes isRecording: only recorder.onstop does
IsRecordingAfterStopCall(recording) == recording

StopRecording ==
    /\ recorders' = IF StopGuard(recorderRef, recorders)
                    THEN MediaRecorderStop(recorders, recorderRef)
                    ELSE recorders
    /\ isRecording' = IsRecordingAfterStopCall(isRecording)
    /\ UNCHANGED <<downloadUrl, playSignal, recorderRef, chunksRef, objectUrls>>
    /\ UNCHANGED <<storeVars, imageVars, sceneVars, supported>>

TimerSteps == {4000}

Armed(rec) == rec.timer >= 0

\* timer time passes: no timeout is overrun
Advance(dt) ==
    /\ \E r \in 1..Len(recorders) : Armed(recorders[r])
    /\ \A r \in 1..Len(recorders) : Armed(recorders[r]) => recorders[r].timer >= dt
    /\ recorders' = [r \in 1..Len(recorders) |->
          [recorders[r] EXCEPT
              !.timer = IF Armed(recorders[r]) THEN @ - dt ELSE @,
              !.elapsed = IF recorders[r].state = "recording" THEN @ + dt ELSE @]]
    /\ UNCHANGED <<isRecording, downloadUrl, playSignal, recorderRef, chunksRef,
                   objectUrls>>
    /\ UNCHANGED <<storeVars, imageVars, sceneVars, supported>>

\* variant: the timeout stops whatever recorder is current when it fires
TimerStopsCurrent(r) ==
    /\ r \in 1..Len(recorders)
    /\ recorders[r].timer = 0
    /\ recorders' = [MediaRecorderStop(recorders, recorderRef) EXCEPT ![r].timer = -1]
    /\ UNCHANGED <<isRecording, downloadUrl, playSignal, recorderRef, chunksRef,
                   objectUrls>>
    /\ UNCHANGED <<storeVars, imageVars, sceneVars, supported>>

\* window.setTimeout(() => { recorder.stop() }, ...) fires
TimerFires(r) ==
    /\ r \in 1..Len(recorders)
    /\ recorders[r].timer = 0
    /\ recorders' = [MediaRecorderStop(recorders, r) EXCEPT ![r].timer = -1]
    /\ UNCHANGED <<isRecording, downloadUrl, playSignal, recorderRef, chunksRef,
                   objectUrls>>
    /\ UNCHANGED <<storeVars, imageVars, sceneVars, supported>>

\* recorder.ondataavailable: if (event.data.size) chunksRef.current.push(event.data)
ChunksAfterData(chunks, r, size) == IF size # 0 THEN Append(chunks, r) ELSE chunks

\* the task queued by stop(): dataavailable, then stop; recorder.onstop builds the
\* blob from chunksRef.current, setDownloadUrl(url), setIsRecording(false)
StopTask(r, size) ==
    /\ r \in 1..Len(recorders)
    /\ recorders[r].stopQueued
    /\ recorders' = [recorders EXCEPT ![r].stopQueued = FALSE]
    /\ chunksRef' = ChunksAfterData(chunksRef, r, size)
    /\ objectUrls' = Append(objectUrls, [recorder |-> r, chunks |-> chunksRef'])
    /\ downloadUrl' = Len(objectUrls) + 1
    /\ isRecording' = FALSE
    /\ UNCHANGED <<playSignal, recorderRef>>
    /\ UNCHANGED <<storeVars, imageVars, sceneVars, supported>>

----------------------------------------------------------------------------

InitOn(platforms) ==
    /\ settings = InitialSettings
    /\ storeLog = <<[op |-> "init", key |-> "", value |-> 0, settings |-> InitialSettings]>>
    /\ prepared = 0
    /\ isLoading = TRUE
    /\ isRecording = FALSE
    /\ downloadUrl = 0
    /\ playSignal = 0
    /\ rendered = [isRecording |-> FALSE, settings |-> InitialSettings]
    /\ scene = NoScene
    /\ frameOut = NoFrame
    /\ canvasRef = 0
    /\ canvasOwner = <<>>
    /\ recorderRef = 0
    /\ chunksRef = <<>>
    /\ recorders = <<>>
    /\ objectUrls = <<>>
    /\ supported \in platforms
    /\ bootstrap = "fetching"
    /\ uploads = <<>>

\* every platform
InitAnyPlatform == InitOn(Platforms)

\* a platform with no webm support, and one supporting every type asked for
Init == InitOn({{}, {Vp9, Vp8, Webm}})

BootstrapSteps ==
    \/ BootstrapFetched
    \/ BootstrapPrepared
    \/ BootstrapFailed

UploadSteps ==
    \/ \E hasFile \in BOOLEAN : HandleFileChange(hasFile)
    \/ \E u \in 1..MaxUploads : \E isString \in BOOLEAN : ReaderLoaded(u, isString)
    \/ \E u \in 1..MaxUploads : ReaderError(u)
    \/ \E u \in 1..MaxUploads : UploadPrepared(u)
    \/ \E u \in 1..MaxUploads : UploadFailed(u)

RecorderSteps ==
    \/ HandleRecord
    \/ StopRecording
    \/ \E r \in 1..MaxRecorders : \E size \in {0, 1} : StopTask(r, size)

TimerTicks ==
    \/ \E dt \in TimerSteps : Advance(dt)
    \/ \E r \in 1..MaxRecorders : TimerFires(r)

\* the duration slider and the reset button, one call fewer than MaxOps allows
DurationSteps ==
    \/ \E value \in Values("duration") :
          Len(storeLog) < MaxOps /\ SetValue("duration", value)
    \/ Len(storeLog) < MaxOps /\ Reset

SettingsSteps ==
    \/ \E key \in Keys : \E value \in Values(key) : SetValue(key, value)
    \/ Reset

FrameSteps == \E delta \in FrameDeltas : Frame(delta)

\* The capture pipeline: the default image, the duration setting, renders,
\* recorders and their timeouts.
Next ==
    \/ BootstrapSteps
    \/ DurationSteps
    \/ Render
    \/ RecorderSteps
    \/ TimerTicks

Spec == Init /\ [][Next]_vars

\* Captures against image replacement: uploads, renders, recorders, timeouts.
NextImage ==
    \/ BootstrapSteps
    \/ UploadSteps
    \/ Render
    \/ RecorderSteps
    \/ TimerTicks

SpecImage == Init /\ [][NextImage]_vars

\* The Scene's phase accumulator: mounts and remounts, restart signals, frames.
\* Recorders end by stopRecording and deliver data; their timeouts stay pending.
NextScene ==
    \/ BootstrapSteps
    \/ UploadSteps
    \/ Render
    \/ FrameSteps
    \/ HandleRecord
    \/ StopRecording
    \/ \E r \in 1..MaxRecorders : StopTask(r, 1)

SpecScene == Init /\ [][NextScene]_vars

\* The settings store and its readers: every key, renders, frames, handleRecord.
NextStore ==
    \/ BootstrapSteps
    \/ SettingsSteps
    \/ Render
    \/ FrameSteps
    \/ HandleRecord

SpecStore == Init /\ [][NextStore]_vars

\* Codec selection: captures on every platform.
NextCodec ==
    \/ BootstrapSteps
    \/ Render
    \/ RecorderSteps
    \/ TimerTicks

SpecCodec == InitAnyPlatform /\ [][NextCodec]_vars

\* durations setValue is called with when no slider restricts them
AnyDurations == {-4000, 0, 50, 100, 3000, 8000}

\* values setValue is called with for the frame computation
FrameValues(key) == IF key = "duration" THEN AnyDurations ELSE Values(key)

FineDeltas == {1550, 4000}

\* The frame computation: any setting, durations of any sign, renders, frames.
NextFrame ==
    \/ BootstrapSteps
    \/ \E key \in Keys : \E value \in FrameValues(key) : SetValue(key, value)
    \/ Render
    \/ \E delta \in FineDeltas : Frame(delta)

SpecFrame == Init /\ [][NextFrame]_vars

----------------------------------------------------------------------------
(* Properties *)

Recorders == 1..Len(recorders)

\* C1: a capture starts only from Idle: while isRecording holds, no call of
\* handleRecord creates a recorder (the call is a no-op).
C1_StartOnlyFromIdle ==
    [][isRecording => Len(recorders') = Len(recorders)]_vars

\* C2: a capture that is not stopped by stopRecording stops when it has recorded
\* for exactly the duration handleRecord read at its start, whatever the setting
\* became meanwhile: until then it keeps recording, with its timeout due exactly
\* then; and the task its stop queues exposes its artifact and clears isRecording.
C2_AutoStopAfterDuration ==
    [][\A r \in Recorders :
        /\ (recorders[r].state = "recording" /\ recorders'[r].state = "inactive"
               /\ ~StopRecording)
             => recorders[r].elapsed = Max(0, recorders[r].duration)
        /\ recorders'[r].state = "recording"
             => /\ recorders'[r].elapsed <= Max(0, recorders'[r].duration)
                /\ (recorders'[r].elapsed = Max(0, recorders'[r].duration)
                      <=> recorders'[r].timer = 0)
        /\ (recorders[r].stopQueued /\ ~recorders'[r].stopQueued)
             => /\ downloadUrl' # 0
                /\ objectUrls'[downloadUrl'].recorder = r
                /\ ~isRecording']_vars

\* C2 witness: a capture started with duration 8 stopped by its timeout although
\* the setting had been changed to 4 while it recorded; its artifact is exposed.
C2_Witness ==
    \E r \in Recorders :
        /\ recorders[r].duration = 8000
        /\ settings.duration = 4000
        /\ recorders[r].timer = -1
        /\ downloadUrl # 0
        /\ objectUrls[downloadUrl].recorder = r
        /\ ~isRecording

\* C3: once an upload has replaced the active image while a capture was
\* recording, that capture's artifact is never exposed as downloadUrl.
C3_StaleCaptureNeverExposed ==
    downloadUrl # 0 => ~recorders[objectUrls[downloadUrl].recorder].superseded

\* C4: whenever the playSignal the Scene receives changes value, the phase
\* accumulator is 0 for the next frame evaluation, whatever it had accumulated.
C4_SignalChangeResetsPhase ==
    [][(scene'.mounted /\ scene'.playSignal # scene.playSignal)
          => scene'.timeRef = 0]_vars

\* C4 witness: the Scene has received a changed signal and its accumulator is 0,
\* after a frame had advanced it.
C4_Witness ==
    /\ scene.mounted
    /\ scene.playSignal > 0
    /\ scene.timeRef = 0
    /\ frameOut.valid
    /\ frameOut.elapsed > 0

Capturing == \E r \in Recorders :
    recorders[r].state = "recording" /\ recorders[r].canvas = scene.canvas

\* C5: every capture begins at phase 0: a frame evaluated on a canvas that is
\* being recorded starts from an accumulator the capture's restart has reset (the
\* restart signal has reached the Scene, or the accumulator is still 0).
C5_CaptureBeginsAtPhaseZero ==
    [][((\E delta \in FrameDeltas : Frame(delta)) /\ Capturing)
          => (scene.playSignal = playSignal \/ scene.timeRef = 0)]_vars

\* the default table of the configuration
DefaultTable ==
    [duration |-> 8000, depth |-> 350, sway |-> 600, zoom |-> 120,
     roll |-> 80, wave |-> 150, exposure |-> 1050, vignette |-> 250]

LastOp == storeLog[Len(storeLog)]

\* C6: read right after construction or right after reset(), the store holds
\* exactly the default table, whatever was set before.
C6_ResetYieldsDefaults ==
    LastOp.op \in {"init", "reset"} => settings = DefaultTable

\* C6 witness: reset() has just run on a store that did not hold the defaults.
C6_Witness ==
    /\ Len(storeLog) >= 3
    /\ LastOp.op = "reset"
    /\ storeLog[Len(storeLog) - 1].settings # DefaultTable

\* the value of key after the first i logged operations: the last value set for
\* it since the most recent reset, or its default
RECURSIVE LastSet(_, _)
LastSet(i, key) ==
    IF storeLog[i].op \in {"init", "reset"} THEN DefaultTable[key]
    ELSE IF storeLog[i].key = key THEN storeLog[i].value
    ELSE LastSet(i - 1, key)

\* C7: every field holds the last value set for it since the most recent reset,
\* or its default: setValue(key, v) changes the field key and no other.
C7_FieldsHoldLastSet ==
    \A key \in Keys : settings[key] = LastSet(Len(storeLog), key)

\* C7 witness: two different fields were set away from their defaults.
C7_Witness ==
    /\ Len(storeLog) = 3
    /\ storeLog[2].op = "set" /\ storeLog[3].op = "set"
    /\ storeLog[2].key # storeLog[3].key
    /\ storeLog[2].value # DefaultTable[storeLog[2].key]
    /\ storeLog[3].value # DefaultTable[storeLog[3].key]

Snapshots == {storeLog[i].settings : i \in 1..Len(storeLog)}

\* C8: no reader sees a torn record: the snapshot handleRecord's closure holds,
\* the Scene's props, the snapshot the last frame used and the duration every
\* capture was started with are the store's state after some prefix of the
\* operations so far, in all eight fields together.
C8_NoTornSnapshot ==
    /\ rendered.settings \in Snapshots
    /\ scene.mounted => scene.settings \in Snapshots
    /\ frameOut.valid => frameOut.settings \in Snapshots
    /\ \A r \in Recorders : \E snap \in Snapshots : recorders[r].duration = snap.duration

\* C8 witness: after two operations a frame has used the snapshot the first left.
C8_Witness ==
    /\ Len(storeLog) = 3
    /\ frameOut.valid
    /\ frameOut.settings = storeLog[2].settings
    /\ frameOut.settings # storeLog[1].settings
    /\ frameOut.settings # storeLog[3].settings

\* C9: every frame evaluation computes from the settings the store holds when
\* the frame runs.
C9_FramesUseLatestSettings ==
    [][(\E delta \in FrameDeltas : Frame(delta)) => frameOut'.settings = settings]_vars

\* C10: stopRecording called while the capture is Idle (no recorder yet, or the
\* current recorder is no longer recording) changes nothing and makes no artifact.
C10_StopWhileIdleIsNoOp ==
    [][(StopRecording /\ ~StopGuard(recorderRef, recorders))
          => UNCHANGED <<isRecording, chunksRef, downloadUrl, objectUrls, recorders>>]_vars

\* C10 witness: the current recorder was stopped early by stopRecording (its
\* timeout is still pending) and its stop task has not run yet.
C10_Witness ==
    /\ recorderRef # 0
    /\ recorders[recorderRef].state = "inactive"
    /\ recorders[recorderRef].stopQueued
    /\ recorders[recorderRef].timer > 0
    /\ isRecording

----------------------------------------------------------------------------
(* Properties of image preparation *)

Uploads == 1..Len(uploads)

BootstrapInFlight == bootstrap \in {"fetching", "preparing"}

UploadInFlight(u) == uploads[u] \in {"reading", "preparing"}

PreparationInFlight == BootstrapInFlight \/ \E u \in Uploads : UploadInFlight(u)

PreparationFailed ==
    bootstrap = "failed" \/ \E u \in Uploads : uploads[u] \in {"failed", "readerror"}

\* C11: every failure of a preparation ends with the loading flag cleared: once
\* a preparation has failed and none is in flight any more, isLoading is false.
C11_FailureClearsLoading ==
    (PreparationFailed /\ ~PreparationInFlight) => ~isLoading

\* the most recently requested preparation: the last upload, 0 = the bootstrap
LastRequested == Len(uploads)

LastRequestedDone ==
    IF LastRequested = 0 THEN bootstrap = "done" ELSE uploads[LastRequested] = "done"

\* C20: isLoading is true while some preparation is in flight, and once all
\* have finished the active image is the one prepared by the most recently
\* requested preparation.
C20_LastRequestedWins ==
    /\ PreparationInFlight => isLoading
    /\ (~PreparationInFlight /\ LastRequestedDone) => prepared = ImageId(LastRequested)

----------------------------------------------------------------------------
(* Properties of the capture's codec *)

\* the preference list
CodecOrder == <<Vp9, Vp8, Webm>>

FirstSupported(sup) ==
    CodecOrder[CHOOSE i \in 1..Len(CodecOrder) :
                  /\ CodecOrder[i] \in sup
                  /\ \A j \in 1..(i - 1) : CodecOrder[j] \notin sup]

\* C12: every capture's codec is the first of vp9 webm, vp8 webm, plain webm the
\* platform supports; a call of handleRecord that passes its guard starts a
\* capture whenever one of the three is supported; on a platform supporting none
\* the capture state stays Idle: no recorder and no timer, isRecording false,
\* playSignal never incremented.
C12_FirstSupportedCodec ==
    /\ \A r \in Recorders :
          /\ recorders[r].mime \in supported
          /\ recorders[r].mime = FirstSupported(supported)
    /\ (supported # {} /\ ~RecordReturnsEarly(canvasRef, rendered.isRecording)
           /\ Len(recorders) < MaxRecorders)
          => ENABLED (HandleRecord /\ Len(recorders') = Len(recorders) + 1)
    /\ supported = {}
          => (recorders = <<>> /\ recorderRef = 0 /\ ~isRecording /\ playSignal = 0)

\* C12 witness: on a platform supporting neither vp9 nor vp8 webm a capture is
\* recording with plain webm.
C12_Witness ==
    /\ Vp9 \notin supported /\ Vp8 \notin supported
    /\ \E r \in Recorders : recorders[r].state = "recording" /\ recorders[r].mime = Webm

----------------------------------------------------------------------------
(* Properties of the artifact *)

\* a capture between its start and its stop event
InProgress(r) == recorders[r].state = "recording" \/ recorders[r].stopQueued

\* C13: in every state between a capture's start and its stop event downloadUrl
\* is null.
C13_NoArtifactDuringCapture ==
    (\E r \in Recorders : InProgress(r)) => downloadUrl = 0

----------------------------------------------------------------------------
(* Properties of the phase accumulator *)

\* C14: the accumulator of the scene on screen goes down (back to 0) only in a
\* step in which the playSignal the Scene receives changes value: no settings
\* change, re-render, upload or loading toggle lowers it.
C14_ResetOnlyOnSignalChange ==
    [][(scene.mounted /\ scene'.mounted /\ scene'.timeRef < scene.timeRef)
          => scene'.playSignal # scene.playSignal]_vars

----------------------------------------------------------------------------
(* Properties of the frame computation *)

MaxCycles == 2       \* loops added to the elapsed time

\* two frames wrote the same transforms
SameTransforms(f, g) == [f EXCEPT !.elapsed = 0] = [g EXCEPT !.elapsed = 0]

\* C15: with a duration > 0, what a frame writes at elapsed t is what it writes
\* at t + k * settings.duration, for every k.
C15_PeriodicInDuration ==
    (frameOut.valid /\ frameOut.settings.duration > 0)
      => \A k \in 0..MaxCycles :
            SameTransforms(frameOut,
                FrameTransforms(frameOut.elapsed + k * frameOut.settings.duration,
                                frameOut.settings))

\* C16: with settings.sway = 0 every frame writes exactly 0 to the camera's x
\* and y, whatever the elapsed time and the other settings.
C16_NoSwayNoOffset ==
    (frameOut.valid /\ frameOut.settings.sway = 0)
      => /\ frameOut.cameraX.zero /\ frameOut.cameraX.amp = 0
         /\ frameOut.cameraY.zero /\ frameOut.cameraY.amp = 0

\* C16 witness: a frame with sway 0 in mid-loop, the zoom still moving the
\* camera.
C16_Witness ==
    /\ frameOut.valid
    /\ frameOut.settings.sway = 0
    /\ frameOut.phase # 0
    /\ ~frameOut.cameraZ.plus.zero
    /\ frameOut.cameraX.zero /\ frameOut.cameraY.zero

\* C17: whatever duration was set (0 and negative ones included), a frame
\* divides by a duration of at least 0.1 and its normalized phase
\* phase / duration lies in [0, 1).
C17_PhaseNormalized ==
    frameOut.valid
      => /\ frameOut.duration >= MinDuration
         /\ frameOut.duration > 0
         /\ frameOut.phase \in 0..(frameOut.duration - 1)

\* C17 witness: frames in mid-loop with a duration of 0 and a negative one set.
C17_Witness ==
    /\ frameOut.valid
    /\ frameOut.settings.duration <= 0
    /\ frameOut.elapsed > 0
    /\ frameOut.duration = MinDuration
    /\ frameOut.phase # 0

----------------------------------------------------------------------------
(* Properties of a capture's end *)

\* the artifacts made by the stop event of recorder r
ArtifactsOf(urls, r) == {i \in 1..Len(urls) : urls[i].recorder = r}

\* the capture of recorder r has ended: stopped, and its stop event delivered
Ended(rec) == rec.state = "inactive" /\ ~rec.stopQueued

\* C18: every capture ends once with one artifact: a capture that has ended has
\* made exactly one artifact and any other none, whatever fires after its end; a
\* capture that is recording has its timeout pending; and a recording capture is
\* stopped only by stopRecording on the current recorder or by its own timeout
\* when due, never by the timeout of another capture.
C18_EndsOnceWithOneArtifact ==
    [][\A r \in 1..Len(recorders') :
        /\ Cardinality(ArtifactsOf(objectUrls', r))
              = IF Ended(recorders'[r]) THEN 1 ELSE 0
        /\ recorders'[r].state = "recording" => Armed(recorders'[r])
        /\ (r \in Recorders /\ recorders[r].state = "recording"
               /\ recorders'[r].state = "inactive")
             => \/ r = recorderRef /\ StopRecording
                \/ recorders[r].timer = 0]_vars

\* C18 witness: the timeout of a capture that was stopped early has fired while
\* a newer capture is recording; the old one has its one artifact, the newer one
\* records on with its own timeout pending.
C18_Witness ==
    \E r1, r2 \in Recorders :
        /\ r1 < r2
        /\ recorders[r1].timer = -1
        /\ Cardinality(ArtifactsOf(objectUrls, r1)) = 1
        /\ recorders[r2].state = "recording"
        /\ recorders[r2].timer > 0
        /\ recorders[r2].elapsed > 0
        /\ isRecording /\ downloadUrl = 0

\* C19: every artifact is built from chunks of its own capture's recorder only,
\* and the chunk buffer holds chunks of the current recorder only.
C19_ArtifactFromOwnChunks ==
    /\ \A i \in 1..Len(objectUrls) : \A j \in 1..Len(objectUrls[i].chunks) :
          objectUrls[i].chunks[j] = objectUrls[i].recorder
    /\ \A j \in 1..Len(chunksRef) : chunksRef[j] = recorderRef

----------------------------------------------------------------------------
(* Properties of the recorded surface *)

\* C21: a capture starts only on the canvas of the scene that is mounted: no
\* recorder is created while no canvas is registered, nor on the canvas of a
\* scene that has been unmounted.
C21_CaptureOnMountedCanvas ==
    [][Len(recorders') > Len(recorders)
          => /\ canvasRef # 0
             /\ scene.mounted
             /\ recorders'[Len(recorders')].canvas = scene.canvas]_vars

====
